---- MODULE Spec2Model ----
(***************************************************************************)
(* Boolean retrieval engine (src/src/model.rs) and the folder-picking      *)
(* handler of its front end (src/src/main.rs).                             *)
(*                                                                         *)
(* A string is a sequence of one-character strings, so that lengths,       *)
(* slices, splitting and comparison are computed as the code computes      *)
(* them.  A HashMap is a function whose DOMAIN is the set of keys.         *)
(***************************************************************************)
EXTENDS Integers, Sequences, FiniteSets, TLC

VARIABLES posting_list, documents, calls, dir, query, result, a, b

vars == <<posting_list, documents, calls, dir, query, result, a, b>>

(***************************************************************************)
(* Bounds of the model.                                                    *)
(***************************************************************************)
MaxFiles == 2
MaxIndexCalls == 2
MaxQueryTokens == 4
MaxId == 3
MaxPos == 0
MaxK == 1

(***************************************************************************)
(* Characters.                                                             *)
(***************************************************************************)
Upper == <<"A","B","C","D","E","F","G","H","I","J","K","L","M",
           "N","O","P","Q","R","S","T","U","V","W","X","Y","Z">>
Lower == <<"a","b","c","d","e","f","g","h","i","j","k","l","m",
           "n","o","p","q","r","s","t","u","v","w","x","y","z">>
Digits == <<"0","1","2","3","4","5","6","7","8","9">>

\* The characters of the model in ascending byte order.
ByteOrder == <<" ", "!", "'", "+", ",", ".", "/">> \o Digits \o Upper \o Lower

Range(s) == {s[i] : i \in 1..Len(s)}

Code(c) == CHOOSE i \in 1..Len(ByteOrder) : ByteOrder[i] = c

ToLowerChar(c) ==
    IF \E i \in 1..26 : Upper[i] = c
    THEN Lower[CHOOSE i \in 1..26 : Upper[i] = c]
    ELSE c

\* str::to_lowercase
ToLowercase(s) == [i \in 1..Len(s) |-> ToLowerChar(s[i])]

\* char::is_ascii_alphanumeric
AsciiAlphanumerics == Range(Upper) \cup Range(Lower) \cup Range(Digits)

IsAsciiAlphanumeric(c) == c \in AsciiAlphanumerics

\* text.to_lowercase().replace(|c| !c.is_ascii_alphanumeric(), " ")
FilterText(text) ==
    LET low == ToLowercase(text)
    IN  [i \in 1..Len(low) |-> IF ~IsAsciiAlphanumeric(low[i]) THEN " " ELSE low[i]]

\* str::split(' '): the pieces between single spaces, empty pieces included.
\* Piece k runs from just after the (k-1)-th space to just before the k-th.
Split(s) ==
    LET spaces == {i \in 1..Len(s) : s[i] = " "}
        cut == [k \in 0..(Cardinality(spaces) + 1) |->
                   IF k = 0 THEN 0
                   ELSE IF k = Cardinality(spaces) + 1 THEN Len(s) + 1
                   ELSE CHOOSE i \in spaces : Cardinality({j \in spaces : j < i}) = k - 1]
    IN  [k \in 1..(Cardinality(spaces) + 1) |-> SubSeq(s, cut[k - 1] + 1, cut[k] - 1)]

LongerThanOne(x) == Len(x) > 1

\* s.split(' ').filter(|&x| x.len() > 1)
Tokenize(s) == SelectSeq(Split(s), LongerThanOne)

STOPWORDS == <<
    <<"a">>, <<"i","s">>, <<"t","h","e">>, <<"o","f"," ">>, <<"a","l","l">>,
    <<"a","n","d"," ">>, <<"t","o">>, <<"c","a","n">>, <<"b","e">>, <<"a","s">>,
    <<"o","n","c","e"," ">>, <<"f","o","r">>, <<"a","t">>, <<"a","m">>,
    <<"a","r","e">>, <<"h","a","s">>, <<"h","a","v","e">>, <<"h","a","d">>,
    <<"u","p">>, <<"h","i","s">>, <<"h","e","r">>, <<"i","n">>, <<"o","n">>,
    <<"n","o">>, <<"w","e">>, <<"d","o">>
>>

\* STOPWORDS.contains(t)
IsStopword(t) == \E i \in 1..Len(STOPWORDS) : STOPWORDS[i] = t

NotStopword(t) == ~IsStopword(t)

(***************************************************************************)
(* self.stemmer.stem(s): the English Snowball stemmer of the rust_stemmers *)
(* crate.  The words of this model only meet two of its rules: a word of   *)
(* at most two letters is left as it is, and step 1a deletes a final "s"   *)
(* that follows neither "s" nor "u" when the part before it holds a vowel  *)
(* that is not the letter right before the "s".                            *)
(***************************************************************************)
Vowels == {"a", "e", "i", "o", "u", "y"}

Stem(s) ==
    LET n == Len(s)
    IN  IF n <= 2 THEN s
        ELSE IF /\ s[n] = "s"
                /\ s[n - 1] \notin {"s", "u"}
                /\ \E i \in 1..(n - 2) : s[i] \in Vowels
        THEN SubSeq(s, 1, n - 1)
        ELSE s

(***************************************************************************)
(* Posting Store.                                                          *)
(***************************************************************************)
Document(id, positions) == [id |-> id, positions |-> positions]

\* impl PartialEq for Document: two documents are equal when their ids are;
\* extended to vectors of documents.
DocumentsEq(x, y) == Len(x) = Len(y) /\ \A i \in 1..Len(x) : x[i].id = y[i].id

\* slice::binary_search_by(|doc| doc.id.cmp(&id)): [found, idx], idx 1-based.
RECURSIVE BinarySearchLoop(_, _, _, _)
BinarySearchLoop(list, id, left, right) ==
    IF left >= right THEN [found |-> FALSE, idx |-> left + 1]
    ELSE LET mid == left + ((right - left) \div 2)
         IN  IF list[mid + 1].id < id THEN BinarySearchLoop(list, id, mid + 1, right)
             ELSE IF list[mid + 1].id > id THEN BinarySearchLoop(list, id, left, mid)
             ELSE [found |-> TRUE, idx |-> mid + 1]

BinarySearch(list, id) == BinarySearchLoop(list, id, 0, Len(list))

\* HashMap::insert
MapInsert(map, key, value) ==
    [x \in (DOMAIN map) \cup {key} |-> IF x = key THEN value ELSE map[x]]

InsertAlwaysPush(pl, term, document) ==
    IF term \in DOMAIN pl
    THEN [pl EXCEPT ![term] = Append(@, document)]
    ELSE MapInsert(pl, term, <<document>>)

\* BooleanModel::insert
Insert(pl, term, document) ==
    IF term \in DOMAIN pl
    THEN LET idx_result == BinarySearch(pl[term], document.id)
         IN  IF idx_result.found
             THEN [pl EXCEPT ![term][idx_result.idx].positions = @ \o document.positions]
             ELSE [pl EXCEPT ![term] = Append(@, document)]
    ELSE MapInsert(pl, term, <<document>>)

(***************************************************************************)
(* Indexer.                                                                *)
(***************************************************************************)
\* Ordering of two paths of one directory: PathBuf::cmp is the byte-wise
\* lexicographic order of the file names.
RECURSIVE LexLess(_, _, _)
LexLess(x, y, i) ==
    IF i > Len(y) THEN FALSE
    ELSE IF i > Len(x) THEN TRUE
    ELSE IF x[i] # y[i] THEN Code(x[i]) < Code(y[i])
    ELSE LexLess(x, y, i + 1)

\* The comparator of files.sort_by: path length, then the path.
SortsBefore(x, y) ==
    IF Len(x) # Len(y) THEN Len(x) < Len(y) ELSE LexLess(x, y, 1)

RECURSIVE SortedInsert(_, _)
SortedInsert(sorted, x) ==
    IF sorted = <<>> THEN <<x>>
    ELSE IF SortsBefore(x, Head(sorted)) THEN <<x>> \o sorted
    ELSE <<Head(sorted)>> \o SortedInsert(Tail(sorted), x)

RECURSIVE SortSet(_)
SortSet(S) ==
    IF S = {} THEN <<>>
    ELSE LET x == CHOOSE y \in S : TRUE
         IN  SortedInsert(SortSet(S \ {x}), x)

RECURSIVE LexSortedInsert(_, _)
LexSortedInsert(sorted, x) ==
    IF sorted = <<>> THEN <<x>>
    ELSE IF LexLess(x, Head(sorted), 1) THEN <<x>> \o sorted
    ELSE <<Head(sorted)>> \o LexSortedInsert(Tail(sorted), x)

RECURSIVE LexSortSet(_)
LexSortSet(S) ==
    IF S = {} THEN <<>>
    ELSE LET x == CHOOSE y \in S : TRUE
         IN  LexSortedInsert(LexSortSet(S \ {x}), x)

ListDirSortedLexOnly(d) == LexSortSet(DOMAIN d)

\* BooleanModel::list_dir_sorted: the names of the directory's entries, sorted.
ListDirSorted(d) == SortSet(DOMAIN d)

SummaryLen == 50

\* str::get(lo..hi): None when the range runs past the end.
StrGet(s, lo, hi) ==
    IF hi <= Len(s) THEN [some |-> TRUE, val |-> SubSeq(s, lo + 1, hi)]
    ELSE [some |-> FALSE, val |-> <<>>]

\* Option::unwrap_or_default
UnwrapOrDefault(o) == IF o.some THEN o.val ELSE <<>>

Model(pl, docs) == [posting_list |-> pl, documents |-> docs]

\* BooleanModel::new
NewModel == Model(<<>>, <<>>)

\* The for_each of index(): term j of the filtered stream goes into the store.
RECURSIVE InsertTokens(_, _, _, _)
InsertTokens(pl, terms, j, doc_id) ==
    IF j > Len(terms) THEN pl
    ELSE InsertTokens(Insert(pl, terms[j], Document(doc_id, <<j - 1>>)),
                      terms, j + 1, doc_id)

\* What index() derives from the text of a file before it touches the store:
\* the filtered text and the stems of the tokens that are not stopwords.
Analyze(text) ==
    LET filtered_text == FilterText(text)
        tokens        == SelectSeq(Tokenize(filtered_text), NotStopword)
    IN  [filtered_text |-> filtered_text,
         terms         |-> [j \in 1..Len(tokens) |-> Stem(tokens[j])]]

\* The texts of the files of the model.
Text1 == <<"C","a","t"," ","s","a","t"," ","m","a","t">>

Text2 == <<"c","a","t"," ","r","a","n"," ","f","a","s","t"," ","a","n","d"," ",
           "t","h","e"," ","c","a","t"," ","h","i","d",","," ","c","a","t","s"," ",
           "d","o","n","'","t"," ","s","i","t"," ","f","o","r"," ","m","a","t","!">>

Texts == {Text1, Text2}

\* Analyze on each text of the model (the @@ makes TLC tabulate the function once).
Analyzed == [text \in Texts |-> Analyze(text)] @@ <<>>

\* One iteration of the loop of index(): file number doc_id of the listing.
IndexFile(m, d, name, doc_id) ==
    IF ~d[name].ok THEN m
    ELSE LET text == d[name].text
             an   == Analyzed[text]
         IN  Model(InsertTokens(m.posting_list, an.terms, 1, doc_id),
                   MapInsert(m.documents, doc_id,
                             [name    |-> name,
                              summary |-> UnwrapOrDefault(StrGet(an.filtered_text, 0, SummaryLen)),
                              text    |-> text]))

RECURSIVE IndexLoop(_, _, _, _)
IndexLoop(m, d, files, i) ==
    IF i > Len(files) THEN m
    ELSE IndexLoop(IndexFile(m, d, files[i], i), d, files, i + 1)

\* BooleanModel::index
IndexModel(m, d) == IndexLoop(m, d, ListDirSorted(d), 1)

\* BooleanModel::get_doc: [some, val]
GetDoc(docs, id) ==
    IF id \in DOMAIN docs THEN [some |-> TRUE, val |-> docs[id]]
    ELSE [some |-> FALSE, val |-> <<>>]

(***************************************************************************)
(* Query engine.  A merge result is [panic, docs]: panic is TRUE when the  *)
(* code indexes a vector out of bounds.                                    *)
(***************************************************************************)
Ok(docs) == [panic |-> FALSE, docs |-> docs]

Panic == [panic |-> TRUE, docs |-> <<>>]

\* self.get_docs(term).unwrap_or(vec![])
GetDocs(pl, term) ==
    IF Stem(term) \in DOMAIN pl THEN pl[Stem(term)] ELSE <<>>

\* The three loops of union(); i and j are 1-based here.
RECURSIVE UnionLoop(_, _, _, _, _)
UnionLoop(x, y, i, j, res) ==
    IF i <= Len(x) /\ j <= Len(y)
    THEN IF x[i].id = y[j].id THEN UnionLoop(x, y, i + 1, j + 1, Append(res, y[j]))
         ELSE IF x[i].id < y[j].id THEN UnionLoop(x, y, i + 1, j, Append(res, x[i]))
         ELSE UnionLoop(x, y, i, j + 1, Append(res, y[j]))
    ELSE IF i <= Len(x) THEN UnionLoop(x, y, i + 1, j, Append(res, x[i]))
    ELSE IF j <= Len(y)
         THEN IF j <= Len(x) THEN UnionLoop(x, y, i, j + 1, Append(res, x[j]))
              ELSE Panic
    ELSE Ok(res)

\* BooleanModel::union
Union(x, y) == UnionLoop(x, y, 1, 1, <<>>)

RECURSIVE IntersectLoop(_, _, _, _, _)
IntersectLoop(x, y, i, j, res) ==
    IF i <= Len(x) /\ j <= Len(y)
    THEN IF x[i].id = y[j].id THEN IntersectLoop(x, y, i + 1, j + 1, Append(res, y[j]))
         ELSE IF x[i].id < y[j].id THEN IntersectLoop(x, y, i + 1, j, res)
         ELSE IntersectLoop(x, y, i, j + 1, res)
    ELSE res

RECURSIVE IntersectSkipBothLoop(_, _, _, _, _)
IntersectSkipBothLoop(x, y, i, j, res) ==
    IF i <= Len(x) /\ j <= Len(y)
    THEN IF x[i].id = y[j].id
         THEN IntersectSkipBothLoop(x, y, i + 1, j + 1, Append(res, y[j]))
         ELSE IntersectSkipBothLoop(x, y, i + 1, j + 1, res)
    ELSE res

IntersectSkipBoth(x, y) == IntersectSkipBothLoop(x, y, 1, 1, <<>>)

\* BooleanModel::intersect
Intersect(x, y) == IntersectLoop(x, y, 1, 1, <<>>)

AbsDiff(p, q) == IF p >= q THEN p - q ELSE q - p

\* The inner for of positional_intersect(): the value of ok after it.
RECURSIVE InnerScan(_, _, _, _, _)
InnerScan(pp1, ps2, n, ok, k) ==
    IF n > Len(ps2) THEN ok
    ELSE IF AbsDiff(pp1, ps2[n]) <= k THEN InnerScan(pp1, ps2, n + 1, TRUE, k)
    ELSE IF ps2[n] > pp1 THEN ok
    ELSE InnerScan(pp1, ps2, n + 1, ok, k)

\* The outer for of positional_intersect(): TRUE when the document is pushed.
RECURSIVE OuterScan(_, _, _, _, _)
OuterScan(ps1, ps2, n, ok, k) ==
    IF n > Len(ps1) THEN FALSE
    ELSE IF ok THEN TRUE
    ELSE OuterScan(ps1, ps2, n + 1, InnerScan(ps1[n], ps2, 1, ok, k), k)

RECURSIVE PositionalLoop(_, _, _, _, _, _)
PositionalLoop(x, y, k, i, j, answer) ==
    IF i <= Len(x) /\ j <= Len(y)
    THEN IF x[i].id = y[j].id
         THEN PositionalLoop(x, y, k, i + 1, j + 1,
                  IF OuterScan(x[i].positions, y[j].positions, 1, FALSE, k)
                  THEN Append(answer, y[j]) ELSE answer)
         ELSE IF x[i].id < y[j].id THEN PositionalLoop(x, y, k, i + 1, j, answer)
         ELSE PositionalLoop(x, y, k, i, j + 1, answer)
    ELSE answer

\* BooleanModel::positional_intersect
PositionalIntersect(x, y, k) == PositionalLoop(x, y, k, 1, 1, <<>>)

AND == <<"A", "N", "D">>
OR == <<"O", "R">>

\* The closure folded by query_boolean(), given what the token is: "AND", "OR",
\* or a term whose posting list is docs.  st = [ans, op, panic].
BooleanItem(st, kind, docs) ==
    IF st.panic THEN st
    ELSE IF kind = "AND" THEN [st EXCEPT !.op = "AND"]
    ELSE IF kind = "OR" THEN [st EXCEPT !.op = "OR"]
    ELSE IF st.op = "AND" THEN [st EXCEPT !.ans = Intersect(st.ans, docs)]
    ELSE IF st.op = "OR"
         THEN LET u == Union(st.ans, docs)
              IN  IF u.panic THEN [st EXCEPT !.panic = TRUE]
                  ELSE [st EXCEPT !.ans = u.docs]
    ELSE IF st.ans = <<>> THEN [st EXCEPT !.ans = docs]
    ELSE [st EXCEPT !.op = "NONE"]

BooleanStep(pl, st, token) ==
    IF token = AND THEN BooleanItem(st, "AND", <<>>)
    ELSE IF token = OR THEN BooleanItem(st, "OR", <<>>)
    ELSE BooleanItem(st, "term", GetDocs(pl, ToLowercase(token)))

BooleanStart == [ans |-> <<>>, op |-> "NONE", panic |-> FALSE]

BooleanResult(st) == IF st.panic THEN Panic ELSE Ok(st.ans)

RECURSIVE BooleanFold(_, _, _, _)
BooleanFold(pl, st, tokens, n) ==
    IF n > Len(tokens) THEN st
    ELSE BooleanFold(pl, BooleanStep(pl, st, tokens[n]), tokens, n + 1)

\* BooleanModel::query_boolean
QueryBoolean(pl, q) ==
    BooleanResult(BooleanFold(pl, BooleanStart, Tokenize(q), 1))

\* The decimal digits of u32::MAX.
U32MaxDigits == <<"4","2","9","4","9","6","7","2","9","5">>

RECURSIVE StripZeros(_)
StripZeros(s) == IF s # <<>> /\ s[1] = "0" THEN StripZeros(Tail(s)) ELSE s

\* A string of digits that denotes a number above u32::MAX.
Overflows(s) ==
    LET t == StripZeros(s)
    IN  \/ Len(t) > Len(U32MaxDigits)
        \/ Len(t) = Len(U32MaxDigits) /\ LexLess(U32MaxDigits, t, 1)

RECURSIVE DigitsValue(_, _, _)
DigitsValue(s, n, acc) ==
    IF n > Len(s) THEN acc
    ELSE DigitsValue(s, n + 1, acc * 10 + (CHOOSE i \in 1..10 : Digits[i] = s[n]) - 1)

\* str::parse::<u32>: an optional "+", then at least one digit, no overflow.
ParseU32(s) ==
    LET digits == IF s # <<>> /\ s[1] = "+" THEN Tail(s) ELSE s
    IN  IF \/ digits = <<>>
           \/ \E n \in 1..Len(digits) : digits[n] \notin Range(Digits)
           \/ Overflows(digits)
        THEN [ok |-> FALSE, val |-> 0]
        ELSE [ok |-> TRUE, val |-> DigitsValue(digits, 1, 0)]

\* The for loop of query_positional(): st = [docs_list, k].
RECURSIVE PositionalTokens(_, _, _, _)
PositionalTokens(pl, st, tokens, n) ==
    IF n > Len(tokens) THEN st
    ELSE LET token == tokens[n]
         IN  IF token[1] = "/"
             THEN LET tk == ParseU32(Tail(token))
                  IN  PositionalTokens(pl, [st EXCEPT !.k = IF tk.ok THEN tk.val ELSE 1],
                                       tokens, n + 1)
             ELSE PositionalTokens(pl,
                      [st EXCEPT !.docs_list = Append(@, GetDocs(pl, ToLowercase(token)))],
                      tokens, n + 1)

RECURSIVE PositionalFold(_, _, _, _)
PositionalFold(docs_list, k, n, ans) ==
    IF n > Len(docs_list) THEN ans
    ELSE PositionalFold(docs_list, k, n + 1,
             IF n = 1 THEN docs_list[n] ELSE PositionalIntersect(ans, docs_list[n], k))

\* BooleanModel::query_positional
QueryPositional(pl, q) ==
    LET st == PositionalTokens(pl, [docs_list |-> <<>>, k |-> 1], Tokenize(q), 1)
    IN  Ok(PositionalFold(st.docs_list, st.k, 1, <<>>))

(***************************************************************************)
(* Inputs: file names, file contents, directories, queries, postings.      *)
(***************************************************************************)
Names == {<<"b">>, <<"c">>, <<"a","a">>}

\* The outcome of fs::read_to_string on an entry of the directory.
Contents == [ok : {TRUE}, text : Texts] \cup {[ok |-> FALSE, text |-> <<>>]}

Dirs ==
    UNION {[S -> Contents] : S \in {T \in SUBSET Names : Cardinality(T) <= MaxFiles}}

EmptyDir == [n \in {} |-> [ok |-> FALSE, text |-> <<>>]]

\* The index a new model holds after index() of each directory (the @@ makes
\* TLC tabulate the function once).
OpenedFolder == [d \in Dirs |-> IndexModel(NewModel, d)] @@ <<>>

QueryWords == {<<"c","a","t">>, <<"S","a","t">>, AND, OR, <<"/","0">>}

\* The query text with one more word typed after a space.
Extend(q, w) == IF q = <<>> THEN w ELSE q \o <<" ">> \o w

RECURSIVE Join(_)
Join(words) ==
    IF Len(words) = 0 THEN <<>>
    ELSE IF Len(words) = 1 THEN words[1]
    ELSE words[1] \o <<" ">> \o Join(Tail(words))

NumWords(q) == IF q = <<>> THEN 0 ELSE Len(Split(q))

\* The elements of a finite set of integers in ascending order.
Ascending(S) ==
    [i \in 1..Cardinality(S) |-> CHOOSE x \in S : Cardinality({y \in S : y < x}) = i - 1]

PositionLists == {Ascending(S) : S \in (SUBSET (0..MaxPos)) \ {{}}}

\* Posting sequences strictly ascending by id, each with ascending positions.
PostingSeqs ==
    UNION {{[i \in 1..Cardinality(S) |-> Document(Ascending(S)[i], f[Ascending(S)[i]])]
              : f \in [S -> PositionLists]} : S \in SUBSET (1..MaxId)}

NoResult == [op |-> "none", k |-> 0, panic |-> FALSE, docs |-> <<>>]

ResultOf(op, k, r) == [op |-> op, k |-> k, panic |-> r.panic, docs |-> r.docs]

(***************************************************************************)
(* Spec: the life of one model under index() and the Open Folder handler.  *)
(***************************************************************************)
Init ==
    /\ posting_list = NewModel.posting_list
    /\ documents = NewModel.documents
    /\ calls = 0
    /\ dir = EmptyDir
    /\ query = <<>>
    /\ result = NoResult
    /\ a = <<>>
    /\ b = <<>>

\* model.index(data_dir) on the model as it is.
Index(d) ==
    /\ calls < MaxIndexCalls
    /\ \E m \in {IndexModel(Model(posting_list, documents), d)} :
          /\ posting_list' = m.posting_list
          /\ documents' = m.documents
    /\ calls' = calls + 1
    /\ dir' = d
    /\ UNCHANGED <<query, result, a, b>>

\* main.rs, "Open Folder": self.model = BooleanModel::new(); self.model.index(path)
OpenFolder(d) ==
    /\ posting_list' = OpenedFolder[d].posting_list
    /\ documents' = OpenedFolder[d].documents
    /\ calls' = 1
    /\ dir' = d
    /\ UNCHANGED <<query, result, a, b>>

Next ==
    \/ \E d \in Dirs : Index(d)
    \/ \E d \in Dirs : OpenFolder(d)

Spec == Init /\ [][Next]_vars

(***************************************************************************)
(* SpecQuery: queries over the index of a folder opened on a new model.    *)
(***************************************************************************)
InitQuery ==
    /\ \E d \in Dirs :
          /\ posting_list = OpenedFolder[d].posting_list
          /\ documents = OpenedFolder[d].documents
          /\ dir = d
    /\ calls = 1
    /\ query = <<>>
    /\ result = NoResult
    /\ a = <<>>
    /\ b = <<>>

\* One more word w is typed and query_boolean runs on the query text.
SearchBoolean(w) ==
    /\ NumWords(query) < MaxQueryTokens
    /\ query' = Extend(query, w)
    /\ result' = ResultOf("boolean", 0, QueryBoolean(posting_list, query'))
    /\ UNCHANGED <<posting_list, documents, calls, dir, a, b>>

\* One more word w is typed and query_positional runs on the query text.
SearchPositional(w) ==
    /\ NumWords(query) < MaxQueryTokens
    /\ query' = Extend(query, w)
    /\ result' = ResultOf("positional", 0, QueryPositional(posting_list, query'))
    /\ UNCHANGED <<posting_list, documents, calls, dir, a, b>>

NextQuery ==
    \/ \E w \in QueryWords : SearchBoolean(w)
    \/ \E w \in QueryWords : SearchPositional(w)

SpecQuery == InitQuery /\ [][NextQuery]_vars

(***************************************************************************)
(* SpecMerge: the merge primitives on id-sorted posting sequences.         *)
(***************************************************************************)
InitMerge ==
    /\ a \in PostingSeqs
    /\ b \in PostingSeqs
    /\ posting_list = NewModel.posting_list
    /\ documents = NewModel.documents
    /\ calls = 0
    /\ dir = EmptyDir
    /\ query = <<>>
    /\ result = NoResult

MergeUnion ==
    /\ result' = ResultOf("union", 0, Union(a, b))
    /\ UNCHANGED <<posting_list, documents, calls, dir, query, a, b>>

MergeIntersect ==
    /\ result' = ResultOf("intersect", 0, Ok(Intersect(a, b)))
    /\ UNCHANGED <<posting_list, documents, calls, dir, query, a, b>>

MergePositional(k) ==
    /\ result' = ResultOf("positional_intersect", k, Ok(PositionalIntersect(a, b, k)))
    /\ UNCHANGED <<posting_list, documents, calls, dir, query, a, b>>

\* query_boolean on "X AND Y" / "X OR Y" when the posting list of X is a and
\* the posting list of Y is b.
TwoTerms(kind) ==
    BooleanResult(BooleanItem(BooleanItem(BooleanItem(BooleanStart, "term", a), kind, <<>>),
                              "term", b))

QueryAnd ==
    /\ result' = ResultOf("query_and", 0, TwoTerms("AND"))
    /\ UNCHANGED <<posting_list, documents, calls, dir, query, a, b>>

QueryOr ==
    /\ result' = ResultOf("query_or", 0, TwoTerms("OR"))
    /\ UNCHANGED <<posting_list, documents, calls, dir, query, a, b>>

NextMerge ==
    \/ MergeUnion
    \/ MergeIntersect
    \/ \E k \in 0..MaxK : MergePositional(k)
    \/ QueryAnd
    \/ QueryOr

SpecMerge == InitMerge /\ [][NextMerge]_vars

(***************************************************************************)
(* Properties.                                                             *)
(***************************************************************************)
Ids(s) == {s[i].id : i \in 1..Len(s)}

AscendingIds(s) == \A i \in 1..(Len(s) - 1) : s[i].id < s[i + 1].id

AscendingPositions(ps) == \A i \in 1..(Len(ps) - 1) : ps[i] < ps[i + 1]

\* C1: union(a, b) of id-sorted a and b completes and is strictly ascending by
\* id with exactly the ids of a or b; "X OR Y" returns that union.
C1_UnionExact ==
    result.op \in {"union", "query_or"} =>
        /\ ~result.panic
        /\ AscendingIds(result.docs)
        /\ Ids(result.docs) = Ids(a) \cup Ids(b)

\* The posting of document id in the sequence s.
PostingOf(s, id) == s[CHOOSE i \in 1..Len(s) : s[i].id = id]

WithinWindow(ps1, ps2, k) ==
    \E m \in 1..Len(ps1) : \E n \in 1..Len(ps2) : AbsDiff(ps1[m], ps2[n]) <= k

\* C2: positional_intersect(a, b, k) includes every shared document that has a
\* position in a and a position in b at most k apart.
C2_PositionalComplete ==
    result.op = "positional_intersect" =>
        \A id \in Ids(a) \cap Ids(b) :
            WithinWindow(PostingOf(a, id).positions, PostingOf(b, id).positions, result.k)
                => id \in Ids(result.docs)

\* C7: intersect(a, b) of id-sorted a and b is strictly ascending by id with
\* exactly the ids common to a and b, and "X AND Y" returns exactly that.
C7_IntersectExact ==
    result.op \in {"intersect", "query_and"} =>
        /\ ~result.panic
        /\ AscendingIds(result.docs)
        /\ Ids(result.docs) = Ids(a) \cap Ids(b)

C7_Witness ==
    /\ result.op = "query_and"
    /\ result.docs # <<>>
    /\ Ids(a) \ Ids(b) # {}
    /\ Ids(b) \ Ids(a) # {}

\* The stopword set as the specification lists it.
StopwordSet == {
    <<"a">>, <<"i","s">>, <<"t","h","e">>, <<"o","f">>, <<"a","l","l">>,
    <<"a","n","d">>, <<"t","o">>, <<"c","a","n">>, <<"b","e">>, <<"a","s">>,
    <<"o","n","c","e">>, <<"f","o","r">>, <<"a","t">>, <<"a","m">>,
    <<"a","r","e">>, <<"h","a","s">>, <<"h","a","v","e">>, <<"h","a","d">>,
    <<"u","p">>, <<"h","i","s">>, <<"h","e","r">>, <<"i","n">>, <<"o","n">>,
    <<"n","o">>, <<"w","e">>, <<"d","o">>}

\* C3: no word of the stopword set is a key of the posting store.
C3_NoStopwordKeys == \A w \in StopwordSet : w \notin DOMAIN posting_list

\* C4: after any sequence of index() calls on one model the posting store and
\* the catalog are those of a single index() of the last directory on a new model.
C4_IndexReplaces ==
    calls >= 1 =>
        /\ posting_list = IndexModel(NewModel, dir).posting_list
        /\ documents = IndexModel(NewModel, dir).documents

\* The filtered token stream of a document's raw text.
TokenStream(text) == SelectSeq(Tokenize(FilterText(text)), NotStopword)

\* The 0-based positions of the tokens of the stream that stem to term.
Occurrences(tokens, term) == {j - 1 : j \in {n \in 1..Len(tokens) : Stem(tokens[n]) = term}}

\* C6: after index() on a new model every posting list is strictly ascending by
\* id (so one posting per document), every position list is strictly ascending,
\* and a posting holds one position per occurrence of its term in its document.
C6_PostingListsSorted ==
    calls = 1 =>
        \A term \in DOMAIN posting_list :
            /\ AscendingIds(posting_list[term])
            /\ \A i \in 1..Len(posting_list[term]) :
                  LET p == posting_list[term][i]
                  IN  /\ AscendingPositions(p.positions)
                      /\ p.id \in DOMAIN documents
                      /\ Range(p.positions) = Occurrences(TokenStream(documents[p.id].text), term)

C6_Witness ==
    /\ calls = 1
    /\ \E term \in DOMAIN posting_list :
          /\ Len(posting_list[term]) = 2
          /\ Len(posting_list[term][1].positions) >= 2

\* C8: the summary of a catalog entry is the first 50 characters of the
\* normalized text, or the whole normalized text when it is shorter.
C8_Summary ==
    \A id \in DOMAIN documents :
        LET normalized == FilterText(documents[id].text)
        IN  documents[id].summary =
                IF Len(normalized) >= 50 THEN SubSeq(normalized, 1, 50) ELSE normalized

\* The listing order of the specification: name length, then lexicographic.
ListedBefore(m, n) ==
    \/ Len(m) < Len(n)
    \/ Len(m) = Len(n) /\ LexLess(m, n, 1)

ListedId(n) == 1 + Cardinality({m \in DOMAIN dir : ListedBefore(m, n)})

PostedIds == UNION {Ids(posting_list[term]) : term \in DOMAIN posting_list}

\* C9: index() on a new model gives each listed entry the id of its place in the
\* (name length, lexicographic) order; an entry that fails to read has no catalog
\* entry and no posting, a later entry keeps its id, and every posted id is in
\* the catalog.
C9_IdsFollowListing ==
    calls = 1 =>
        /\ \A n \in DOMAIN dir :
              IF dir[n].ok
              THEN /\ GetDoc(documents, ListedId(n)).some
                   /\ GetDoc(documents, ListedId(n)).val.name = n
                   /\ GetDoc(documents, ListedId(n)).val.text = dir[n].text
              ELSE /\ ~GetDoc(documents, ListedId(n)).some
                   /\ ListedId(n) \notin PostedIds
        /\ DOMAIN documents \subseteq 1..Cardinality(DOMAIN dir)
        /\ PostedIds \subseteq DOMAIN documents

C9_Witness ==
    /\ calls = 1
    /\ DOMAIN dir = {<<"b">>, <<"a","a">>}
    /\ ~dir[<<"b">>].ok
    /\ dir[<<"a","a">>].ok
    /\ DOMAIN documents = {2}
    /\ 2 \in PostedIds

\* The words of a query text.
Words(q) == IF q = <<>> THEN <<>> ELSE Split(q)

IsTerm(w) == Len(w) > 1 /\ w # AND /\ w # OR

\* C5: both query evaluators return a document list for every query, and the
\* empty list for a query that is a single never-indexed term.
C5_QueriesReturn ==
    result.op \in {"boolean", "positional"} =>
        /\ ~result.panic
        /\ (/\ Len(Words(query)) = 1
            /\ IsTerm(query)
            /\ Stem(ToLowercase(query)) \notin DOMAIN posting_list) => result.docs = <<>>

\* C10: a term that follows a term combined through AND or OR finds no pending
\* operator: when "X AND Y" (or "X OR Y") is non-empty, "X AND Y Z" returns the same.
C10_PendingResets ==
    (/\ result.op = "boolean"
     /\ Len(Words(query)) = 4
     /\ IsTerm(Words(query)[1])
     /\ Words(query)[2] \in {AND, OR}
     /\ IsTerm(Words(query)[3])
     /\ IsTerm(Words(query)[4]))
    => LET shorter == QueryBoolean(posting_list, Join(SubSeq(Words(query), 1, 3)))
       IN  (~shorter.panic /\ shorter.docs # <<>>) =>
               /\ ~result.panic
               /\ DocumentsEq(result.docs, shorter.docs)

====
